---- MODULE Spec2Model ----
(***************************************************************************)
(* LINE webhook bot (src/main.py): POST /callback verifies the signature,  *)
(* the SDK's WebhookHandler dispatches each event of the body to           *)
(* handle_message (text) or handle_image (image); handle_image fetches     *)
(* the image, stages it in images/<id>.jpg, uploads it to Google Drive     *)
(* with the OAuth credential of token.json and replies with the link.      *)
(*                                                                         *)
(* Every call that leaves the process (LINE reply / content API, Drive     *)
(* API, token refresh, file system) is one step whose outcome the          *)
(* environment chooses.  Strings built with f-strings are sequences of     *)
(* chunks: the literal parts and the interpolated values.                  *)
(***************************************************************************)
EXTENDS Integers, Sequences, FiniteSets, TLC

\* Largest number of events in one webhook body.
MaxEvents == 2

\* Request threads of the HTTP server (one thread per request).
Threads == {"t1", "t2"}

\* Texts a chat user may send.
Texts == {"hello", "bye"}

\* X-Line-Signature header: absent, present but empty, not matching the
\* channel secret, matching it.
Signatures == {"absent", "empty", "bad", "good"}

\* What an event of the body carries besides its identifiers.
Payloads ==
    [kind : {"text"}, text : Texts]
        \cup {[kind |-> "image", text |-> ""], [kind |-> "other", text |-> ""]}

RECURSIVE SeqsUpTo(_, _)
SeqsUpTo(S, n) ==
    IF n = 0 THEN {<<>>}
    ELSE LET shorter == SeqsUpTo(S, n - 1)
         IN  shorter \cup {Append(s, x) : s \in {q \in shorter : Len(q) = n - 1}, x \in S}

EventLists == SeqsUpTo(Payloads, MaxEvents)

\* The platform gives every message its own identifier and every event its
\* own reply token.
MessageId(t, i) == "m_" \o t \o "_" \o ToString(i)
ReplyToken(t, i) == "rt_" \o t \o "_" \o ToString(i)

Events(t, payloads) ==
    [i \in 1..Len(payloads) |->
        [kind |-> payloads[i].kind, text |-> payloads[i].text,
         id |-> MessageId(t, i), reply_token |-> ReplyToken(t, i)]]

\* The binary content the platform holds for a message.
Content(message_id) == "bytes_of_" \o message_id

\* Persisted credential records (token.json).  token = 0: no access token;
\* otherwise the generation of the access token.
CredentialRecords ==
    [token : {0, 1}, expired : BOOLEAN, refresh_token : BOOLEAN]

NoEvent == [kind |-> "none", text |-> "", id |-> "", reply_token |-> ""]
NoRequest == [signature |-> "absent", parsable |-> FALSE, events |-> <<>>]
NoLocals ==
    [image_content |-> "", image_path |-> "", file_name |-> "",
     creds |-> {}, drive_file |-> {}, exc |-> ""]
NoAcquisition ==
    [loaded |-> {}, refresh_calls |-> 0, token_writes |-> 0,
     result |-> "none", returned |-> {}, before |-> {}, ev |-> ""]

VARIABLES
    pc,          \* where each request thread stands
    request,     \* the request a thread serves
    status,      \* the HTTP status a thread answered with, 0: none yet
    queue,       \* events of the body not yet dispatched
    event,       \* the event the running handler was called with
    local,       \* local variables of the running handler
    token_json,  \* file token.json: {} absent, {record} present
    images,      \* directory images/: path -> bytes
    drive,       \* files held by Google Drive
    line,        \* replies the LINE platform accepted
    log,         \* per thread, the outbound calls made, in order
    acq          \* per thread, the record of the latest credential acquisition

vars == <<pc, request, status, queue, event, local, token_json, images, drive,
          line, log, acq>>

----------------------------------------------------------------------------
\* Helpers

\* One outbound call: the operation, the event it was made for, its
\* arguments, and the exception it raised ("" when it returned).
Entry(t, op, arg, err) == [op |-> op, ev |-> event[t].id, arg |-> arg, err |-> err]

Logged(t, op, arg, err) == log' = [log EXCEPT ![t] = Append(@, Entry(t, op, arg, err))]

\* The response is sent (abort(code), or the return of line 146) and the
\* thread ends.
Respond(t, code) ==
    /\ status' = [status EXCEPT ![t] = code]
    /\ pc' = [pc EXCEPT ![t] = "done"]

Goto(t, label) == pc' = [pc EXCEPT ![t] = label]

SetLocal(t, field, value) == local' = [local EXCEPT ![t][field] = value]

\* An exception inside the try block of handle_image: control passes to
\* the except clause, which holds the exception as e.
Caught(t, e) ==
    /\ local' = [local EXCEPT ![t].exc = e]
    /\ Goto(t, "except")

\* creds.valid
Valid(c) == c.token # 0 /\ ~c.expired

\* reply_message_with_http_info: the platform accepts one reply per token.
TokenUsed(tok) == \E r \in line : r.reply_token = tok

----------------------------------------------------------------------------
Init ==
    /\ pc = [t \in Threads |-> IF t = "t1" THEN "idle" ELSE "off"]
    /\ request = [t \in Threads |-> NoRequest]
    /\ status = [t \in Threads |-> 0]
    /\ queue = [t \in Threads |-> <<>>]
    /\ event = [t \in Threads |-> NoEvent]
    /\ local = [t \in Threads |-> NoLocals]
    /\ token_json \in {{}} \cup {{c} : c \in CredentialRecords}
    /\ images = [p \in {} |-> ""]
    /\ drive = {}
    /\ line = {}
    /\ log = [t \in Threads |-> <<>>]
    /\ acq = [t \in Threads |-> NoAcquisition]

----------------------------------------------------------------------------
\* POST /callback

\* callback, lines 125-134: the header check.
callback(t) ==
    /\ pc[t] = "idle"
    /\ \E sig \in Signatures, parsable \in BOOLEAN, payloads \in EventLists :
        /\ request' = [request EXCEPT ![t] =
               [signature |-> sig, parsable |-> parsable, events |-> Events(t, payloads)]]
        /\ IF sig \in {"absent", "empty"}
           THEN Respond(t, 400)
           ELSE /\ Goto(t, "handle")
                /\ UNCHANGED status
    /\ UNCHANGED <<queue, event, local, token_json, images, drive, line, log, acq>>

\* handler_handle with the signature left unverified.
handler_handle_Unverified(t) ==
    /\ pc[t] = "handle"
    /\ IF ~request[t].parsable
       THEN Respond(t, 500) /\ UNCHANGED queue
       ELSE /\ queue' = [queue EXCEPT ![t] = request[t].events]
            /\ Goto(t, "dispatch")
            /\ UNCHANGED status
    /\ UNCHANGED <<request, event, local, token_json, images, drive, line, log, acq>>

\* handler.handle(body, signature), lines 137-144: the SDK verifies the
\* signature, then parses the body; callback turns InvalidSignatureError
\* into 400 and any other exception into 500.
handler_handle(t) ==
    /\ pc[t] = "handle"
    /\ IF request[t].signature # "good"
       THEN Respond(t, 400) /\ UNCHANGED queue
       ELSE IF ~request[t].parsable
       THEN Respond(t, 500) /\ UNCHANGED queue
       ELSE /\ queue' = [queue EXCEPT ![t] = request[t].events]
            /\ Goto(t, "dispatch")
            /\ UNCHANGED status
    /\ UNCHANGED <<request, event, local, token_json, images, drive, line, log, acq>>

\* The loop of handler.handle over the events, and line 146.  An event
\* goes to the handler registered for its message type (lines 149, 169);
\* an event with no handler is skipped.
dispatch(t) ==
    /\ pc[t] = "dispatch"
    /\ IF queue[t] = <<>>
       THEN /\ Respond(t, 200)
            /\ UNCHANGED <<queue, event, local>>
       ELSE LET e == Head(queue[t])
            IN  /\ queue' = [queue EXCEPT ![t] = Tail(@)]
                /\ UNCHANGED status
                /\ IF e.kind = "other"
                   THEN UNCHANGED <<pc, event, local>>
                   ELSE /\ event' = [event EXCEPT ![t] = e]
                        /\ local' = [local EXCEPT ![t] = NoLocals]
                        /\ Goto(t, IF e.kind = "text" THEN "handle_message"
                                                      ELSE "handle_image")
    /\ UNCHANGED <<request, token_json, images, drive, line, log, acq>>

\* The reply API call; ok is the outcome the platform gives.
Reply(t, text, ok) ==
    /\ Logged(t, "reply", <<event[t].reply_token, text>>, IF ok THEN "" ELSE "reply_error")
    /\ line' = IF ok THEN line \cup {[reply_token |-> event[t].reply_token, text |-> text]}
                     ELSE line

\* EchoText with a fixed acknowledgement.
EchoText_Fixed(received_text) == <<"You sent: ", "a message">>

\* line 157
EchoText(received_text) == <<"You sent: ", received_text>>

\* handle_message, lines 150-166.  The reply call is not guarded: its
\* exception leaves the handler and reaches callback's except clause.
handle_message(t) ==
    /\ pc[t] = "handle_message"
    /\ \E ok \in BOOLEAN :
        /\ ok => ~TokenUsed(event[t].reply_token)
        /\ Reply(t, EchoText(event[t].text), ok)
        /\ IF ok THEN Goto(t, "dispatch") /\ UNCHANGED status
                 ELSE Respond(t, 500)
    /\ UNCHANGED <<request, queue, event, local, token_json, images, drive, acq>>

----------------------------------------------------------------------------
\* handle_image

EmptyDir == [p \in {} |-> ""]
WriteFile(dir, path, bytes) == [p \in DOMAIN dir \cup {path} |-> IF p = path THEN bytes ELSE dir[p]]
RemoveFile(dir, path) == [p \in DOMAIN dir \ {path} |-> dir[p]]

\* ImagePath with one scratch name for every image.
ImagePath_Fixed(message_id) == "images/" \o "image" \o ".jpg"

\* line 187
ImagePath(message_id) == "images/" \o message_id \o ".jpg"
\* line 198
FileName(message_id) == "LINE_Image_" \o message_id \o ".jpg"

\* line 184: get_message_content(message_id).
get_message_content(t) ==
    /\ pc[t] = "handle_image"
    /\ \E ok \in BOOLEAN :
        /\ Logged(t, "get_message_content", <<event[t].id>>,
                  IF ok THEN "" ELSE "content_error")
        /\ IF ok
           THEN /\ SetLocal(t, "image_content", Content(event[t].id))
                /\ Goto(t, "write")
           ELSE Caught(t, "content_error")
    /\ UNCHANGED <<request, status, queue, event, token_json, images, drive, line, acq>>

\* lines 187-191: makedirs, open(image_path, "wb"), write.  open creates
\* (or truncates) the file, so a failing write leaves an empty file.
write_scratch(t) ==
    /\ pc[t] = "write"
    /\ LET path == ImagePath(event[t].id)
       IN  \E outcome \in {"ok", "open_failed", "write_failed"} :
            /\ Logged(t, "write", <<path>>, IF outcome = "ok" THEN "" ELSE outcome)
            /\ images' = CASE outcome = "ok" -> WriteFile(images, path, local[t].image_content)
                           [] outcome = "write_failed" -> WriteFile(images, path, "")
                           [] OTHER -> images
            /\ IF outcome = "ok"
               THEN /\ local' = [local EXCEPT ![t].image_path = path,
                                              ![t].file_name = FileName(event[t].id)]
                    /\ Goto(t, "upload")
               ELSE Caught(t, outcome)
    /\ UNCHANGED <<request, status, queue, event, token_json, drive, line, acq>>

\* get_google_drive_service refreshing whenever a refresh token exists.
get_google_drive_service_EagerRefresh(t) ==
    /\ pc[t] = "upload"
    /\ LET creds == token_json
           start == [NoAcquisition EXCEPT !.loaded = creds, !.before = token_json,
                                          !.ev = event[t].id]
           args == <<local[t].image_path, local[t].file_name>>
       IN  IF creds # {} /\ \A c \in creds : c.refresh_token
           THEN /\ Logged(t, "upload", args, "")
                /\ acq' = [acq EXCEPT ![t] = start]
                /\ SetLocal(t, "creds", creds)
                /\ Goto(t, "refresh")
           ELSE IF creds # {} /\ \A c \in creds : Valid(c)
           THEN /\ Logged(t, "upload", args, "")
                /\ acq' = [acq EXCEPT ![t] =
                       [start EXCEPT !.result = "returned", !.returned = creds]]
                /\ SetLocal(t, "creds", creds)
                /\ Goto(t, "create")
           ELSE /\ Logged(t, "upload", args, "Missing or invalid token.json")
                /\ acq' = [acq EXCEPT ![t] = [start EXCEPT !.result = "raised"]]
                /\ Caught(t, "Missing or invalid token.json")
    /\ UNCHANGED <<request, status, queue, event, token_json, images, drive, line>>

\* get_google_drive_service building the service with whatever was loaded.
get_google_drive_service_Unchecked(t) ==
    /\ pc[t] = "upload"
    /\ LET creds == token_json
           start == [NoAcquisition EXCEPT !.loaded = creds, !.before = token_json,
                                          !.ev = event[t].id]
           args == <<local[t].image_path, local[t].file_name>>
       IN  IF creds # {} /\ \A c \in creds : ~Valid(c) /\ c.expired /\ c.refresh_token
           THEN /\ Logged(t, "upload", args, "")
                /\ acq' = [acq EXCEPT ![t] = start]
                /\ SetLocal(t, "creds", creds)
                /\ Goto(t, "refresh")
           ELSE /\ Logged(t, "upload", args, "")
                /\ acq' = [acq EXCEPT ![t] =
                       [start EXCEPT !.result = "returned", !.returned = creds]]
                /\ SetLocal(t, "creds", creds)
                /\ Goto(t, "create")
    /\ UNCHANGED <<request, status, queue, event, token_json, images, drive, line>>

\* line 199 enters upload_to_google_drive, whose first statement (line 81)
\* is get_google_drive_service, lines 38-58: load token.json, return a
\* valid credential, go on to refresh an expired one that has a refresh
\* token, raise ValueError otherwise.  The except clauses of
\* upload_to_google_drive (lines 116-121) print and re-raise.
get_google_drive_service(t) ==
    /\ pc[t] = "upload"
    /\ LET creds == token_json
           start == [NoAcquisition EXCEPT !.loaded = creds, !.before = token_json,
                                          !.ev = event[t].id]
           args == <<local[t].image_path, local[t].file_name>>
       IN  IF creds # {} /\ \A c \in creds : Valid(c)
           THEN /\ Logged(t, "upload", args, "")
                /\ acq' = [acq EXCEPT ![t] =
                       [start EXCEPT !.result = "returned", !.returned = creds]]
                /\ SetLocal(t, "creds", creds)
                /\ Goto(t, "create")
           ELSE IF creds # {} /\ \A c \in creds : c.expired /\ c.refresh_token
           THEN /\ Logged(t, "upload", args, "")
                /\ acq' = [acq EXCEPT ![t] = start]
                /\ SetLocal(t, "creds", creds)
                /\ Goto(t, "refresh")
           ELSE /\ Logged(t, "upload", args, "Missing or invalid token.json")
                /\ acq' = [acq EXCEPT ![t] = [start EXCEPT !.result = "raised"]]
                /\ Caught(t, "Missing or invalid token.json")
    /\ UNCHANGED <<request, status, queue, event, token_json, images, drive, line>>

\* creds_refresh leaving token.json as it was.
creds_refresh_NotPersisted(t) ==
    /\ pc[t] = "refresh"
    /\ \E ok \in BOOLEAN :
        /\ Logged(t, "refresh", <<>>, IF ok THEN "" ELSE "refresh_error")
        /\ IF ok
           THEN LET fresh == {[token |-> c.token + 1, expired |-> FALSE,
                               refresh_token |-> TRUE] : c \in local[t].creds}
                IN  /\ SetLocal(t, "creds", fresh)
                    /\ acq' = [acq EXCEPT ![t].refresh_calls = @ + 1,
                                          ![t].result = "returned",
                                          ![t].returned = fresh]
                    /\ Goto(t, "create")
           ELSE /\ acq' = [acq EXCEPT ![t].refresh_calls = @ + 1,
                                      ![t].result = "raised"]
                /\ Caught(t, "refresh_error")
    /\ UNCHANGED <<request, status, queue, event, token_json, images, drive, line>>

\* lines 49-65: creds.refresh(Request()); on success the refreshed record
\* is written to token.json and the service is returned; on failure the
\* exception is re-raised.
creds_refresh(t) ==
    /\ pc[t] = "refresh"
    /\ \E ok \in BOOLEAN :
        /\ Logged(t, "refresh", <<>>, IF ok THEN "" ELSE "refresh_error")
        /\ IF ok
           THEN LET fresh == {[token |-> c.token + 1, expired |-> FALSE,
                               refresh_token |-> TRUE] : c \in local[t].creds}
                IN  /\ token_json' = fresh
                    /\ SetLocal(t, "creds", fresh)
                    /\ acq' = [acq EXCEPT ![t].refresh_calls = @ + 1,
                                          ![t].token_writes = @ + 1,
                                          ![t].result = "returned",
                                          ![t].returned = fresh]
                    /\ Goto(t, "create")
           ELSE /\ acq' = [acq EXCEPT ![t].refresh_calls = @ + 1,
                                      ![t].result = "raised"]
                /\ Caught(t, "refresh_error")
                /\ UNCHANGED token_json
    /\ UNCHANGED <<request, status, queue, event, images, drive, line>>

DriveId(files) == "f" \o ToString(Cardinality(files) + 1)
ViewLink(id) == "https://drive.google.com/file/d/" \o id \o "/view"

\* lines 83-99: MediaFileUpload opens file_path, files().create(...)
\* sends its bytes; the answer carries id, name and webViewLink.
files_create(t) ==
    /\ pc[t] = "create"
    /\ LET path == local[t].image_path
           name == local[t].file_name
       IN  IF path \notin DOMAIN images
           THEN /\ Logged(t, "open", <<path>>, "file_not_found")
                /\ Caught(t, "file_not_found")
                /\ UNCHANGED drive
           ELSE \E ok \in BOOLEAN :
                /\ Logged(t, "create", <<name, images[path], local[t].creds>>,
                          IF ok THEN "" ELSE "http_error")
                /\ IF ok
                   THEN LET id == DriveId(drive)
                        IN  /\ drive' = drive \cup
                                   {[id |-> id, name |-> name, bytes |-> images[path],
                                     public |-> FALSE]}
                            /\ SetLocal(t, "drive_file",
                                   {[id |-> id, name |-> name, webViewLink |-> ViewLink(id)]})
                            /\ Goto(t, "permission")
                   ELSE /\ Caught(t, "http_error")
                        /\ UNCHANGED drive
    /\ UNCHANGED <<request, status, queue, event, token_json, images, line, acq>>

\* permissions_create letting its exception leave the uploader.
permissions_create_Fatal(t) ==
    /\ pc[t] = "permission"
    /\ \E ok \in BOOLEAN :
        /\ Logged(t, "permission", <<>>, IF ok THEN "" ELSE "http_error")
        /\ drive' = IF ok
                    THEN {IF \E d \in local[t].drive_file : d.id = f.id
                          THEN [f EXCEPT !.public = TRUE] ELSE f : f \in drive}
                    ELSE drive
        /\ IF ok THEN Goto(t, "remove") /\ UNCHANGED local
                 ELSE Caught(t, "http_error")
    /\ UNCHANGED <<request, status, queue, event, token_json, images, line, acq>>

\* lines 102-109: permissions().create(anyone, reader); a failure is
\* printed and the upload goes on to return the file (line 114).
permissions_create(t) ==
    /\ pc[t] = "permission"
    /\ \E ok \in BOOLEAN :
        /\ Logged(t, "permission", <<>>, IF ok THEN "" ELSE "http_error")
        /\ drive' = IF ok
                    THEN {IF \E d \in local[t].drive_file : d.id = f.id
                          THEN [f EXCEPT !.public = TRUE] ELSE f : f \in drive}
                    ELSE drive
    /\ Goto(t, "remove")
    /\ UNCHANGED <<request, status, queue, event, local, token_json, images, line, acq>>

\* os_remove reporting success while the file stays.
os_remove_NoEffect(t) ==
    /\ pc[t] = "remove"
    /\ \E ok \in BOOLEAN :
        /\ Logged(t, "remove", <<local[t].image_path>>, IF ok THEN "" ELSE "os_error")
    /\ Goto(t, "reply")
    /\ UNCHANGED <<request, status, queue, event, local, token_json, images, drive,
                   line, acq>>

\* lines 202-206: os.remove(image_path); a failure is printed only.
os_remove(t) ==
    /\ pc[t] = "remove"
    /\ \E ok \in BOOLEAN :
        /\ ok => local[t].image_path \in DOMAIN images
        /\ Logged(t, "remove", <<local[t].image_path>>, IF ok THEN "" ELSE "os_error")
        /\ images' = IF ok THEN RemoveFile(images, local[t].image_path) ELSE images
    /\ Goto(t, "reply")
    /\ UNCHANGED <<request, status, queue, event, local, token_json, drive, line, acq>>

\* SuccessText without the link.
SuccessText_NoLink(drive_file) ==
    <<"Uploaded to Google Drive! name: ", drive_file.name>>

\* line 210
SuccessText(drive_file) ==
    <<"Uploaded to Google Drive! name: ", drive_file.name, " link: ", drive_file.webViewLink>>

\* ErrorText leaving the exception out.
ErrorText_NoDescription(e) == <<"Error: ">>

\* line 229
ErrorText(e) == <<"Error: ", e>>

\* lines 209-217: the reply with the name and the link, still inside the
\* try block.
reply_success(t) ==
    /\ pc[t] = "reply"
    /\ \E ok \in BOOLEAN, d \in local[t].drive_file :
        /\ ok => ~TokenUsed(event[t].reply_token)
        /\ Reply(t, SuccessText(d), ok)
        /\ IF ok THEN Goto(t, "dispatch") /\ UNCHANGED local
                 ELSE Caught(t, "reply_error")
    /\ UNCHANGED <<request, status, queue, event, token_json, images, drive, acq>>

\* reply_error re-raising after the reply.
reply_error_Reraise(t) ==
    /\ pc[t] = "except"
    /\ \E ok \in BOOLEAN :
        /\ ok => ~TokenUsed(event[t].reply_token)
        /\ Reply(t, ErrorText(local[t].exc), ok)
        /\ Respond(t, 500)
    /\ UNCHANGED <<request, queue, event, local, token_json, images, drive, acq>>

\* lines 218-231: except Exception as e: reply with str(e).  This reply
\* call is not guarded: its exception leaves the handler.
reply_error(t) ==
    /\ pc[t] = "except"
    /\ \E ok \in BOOLEAN :
        /\ ok => ~TokenUsed(event[t].reply_token)
        /\ Reply(t, ErrorText(local[t].exc), ok)
        /\ IF ok THEN Goto(t, "dispatch") /\ UNCHANGED status
                 ELSE Respond(t, 500)
    /\ UNCHANGED <<request, queue, event, local, token_json, images, drive, acq>>

----------------------------------------------------------------------------
Next ==
    \E t \in Threads :
        \/ callback(t)
        \/ handler_handle(t)
        \/ dispatch(t)
        \/ handle_message(t)
        \/ get_message_content(t)
        \/ write_scratch(t)
        \/ get_google_drive_service(t)
        \/ creds_refresh(t)
        \/ files_create(t)
        \/ permissions_create(t)
        \/ os_remove(t)
        \/ reply_success(t)
        \/ reply_error(t)

Spec == Init /\ [][Next]_vars

----------------------------------------------------------------------------
\* Reading the record of calls

Last(seq) == seq[Len(seq)]

\* Positions in thread t's log of the calls op made for event ev.
Calls(t, op, ev) == {k \in DOMAIN log[t] : log[t][k].op = op /\ log[t][k].ev = ev}

\* The handler called for event[t] has returned or raised.
HandlerEnded(t) == pc[t] \in {"dispatch", "done"} /\ event[t] # NoEvent

Contains(text, chunk) == \E i \in DOMAIN text : text[i] = chunk

\* Calls made inside upload_to_google_drive.
UploaderOps == {"upload", "refresh", "open", "create"}

\* Positions of the calls inside upload_to_google_drive that raised.
UploadRaises(t, ev) ==
    {k \in DOMAIN log[t] :
        log[t][k].ev = ev /\ log[t][k].op \in UploaderOps /\ log[t][k].err # ""}

----------------------------------------------------------------------------
\* C1: a request whose signature header is absent, empty or fails
\* verification is answered 400, no handler is called for any of its
\* events and no outbound call or file write is made for it; a handler is
\* entered only with a verified signature.
C1_SignatureRequired ==
    \A t \in Threads :
        request[t].signature # "good" =>
            /\ pc[t] \in {"off", "idle", "handle", "done"}
            /\ pc[t] = "done" => status[t] = 400
            /\ event[t] = NoEvent
            /\ queue[t] = <<>>
            /\ log[t] = <<>>
            /\ local[t] = NoLocals

C1_Witness ==
    \E t \in Threads :
        /\ pc[t] = "done"
        /\ request[t].signature = "bad"
        /\ request[t].parsable
        /\ \E i \in DOMAIN request[t].events : request[t].events[i].kind = "image"
        /\ status[t] = 400

\* C2: when the response of a verified request is sent, every text or
\* image event of the request that reached its handler has had exactly
\* one reply call, whatever calls failed on the way.
C2_ExactlyOneReplyPerEvent ==
    \A t \in Threads :
        (pc[t] = "done" /\ request[t].signature = "good" /\ request[t].parsable) =>
            \A i \in DOMAIN request[t].events :
                LET e == request[t].events[i]
                IN  (\E k \in DOMAIN log[t] : log[t][k].ev = e.id) =>
                        Cardinality(Calls(t, "reply", e.id)) = 1

C4_ScratchFileRemoved ==
    \A t \in Threads :
        (/\ HandlerEnded(t)
         /\ event[t].kind = "image"
         /\ \E k \in Calls(t, "write", event[t].id) : log[t][k].err = ""
         /\ \A k \in Calls(t, "remove", event[t].id) : log[t][k].err = "") =>
            ImagePath(event[t].id) \notin DOMAIN images

AbsorbedOps == {"get_message_content", "write", "upload", "refresh", "open", "create"}

SingleEventDone(t, kind) ==
    /\ pc[t] = "done"
    /\ request[t].signature = "good"
    /\ request[t].parsable
    /\ Len(request[t].events) = 1
    /\ request[t].events[1].kind = kind

\* Positions in thread t's log of the calls op, for whatever event.
AllCalls(t, op) == {k \in DOMAIN log[t] : log[t][k].op = op}

\* C6: for a verified request holding exactly one image event, when no
\* call raises (a failing permission or delete call is only printed), the
\* content is fetched once, by the event's message id, one scratch file
\* is written, named by that id, the uploader is called once, the bytes
\* fetched are the bytes created in the drive, and one reply is sent, with
\* the event's reply token, holding the name and the view link of the
\* created file; the response is 200.
C6_ImageHappyPath ==
    \A t \in Threads :
        (/\ SingleEventDone(t, "image")
         /\ \A k \in DOMAIN log[t] :
                log[t][k].err = "" \/ log[t][k].op \in {"permission", "remove"}) =>
            LET e == request[t].events[1]
            IN  /\ Cardinality(AllCalls(t, "get_message_content")) = 1
                /\ \A k \in AllCalls(t, "get_message_content") : log[t][k].arg = <<e.id>>
                /\ Cardinality(AllCalls(t, "write")) = 1
                /\ \A k \in AllCalls(t, "write") : log[t][k].arg = <<ImagePath(e.id)>>
                /\ Cardinality(AllCalls(t, "upload")) = 1
                /\ \A k \in AllCalls(t, "upload") :
                       log[t][k].arg = <<ImagePath(e.id), FileName(e.id)>>
                /\ Cardinality(AllCalls(t, "create")) = 1
                /\ \E f \in drive :
                       /\ f.bytes = Content(e.id)
                       /\ f.name = FileName(e.id)
                       /\ Cardinality(AllCalls(t, "reply")) = 1
                       /\ \A k \in AllCalls(t, "reply") :
                              /\ log[t][k].arg[1] = e.reply_token
                              /\ Contains(log[t][k].arg[2], f.name)
                              /\ Contains(log[t][k].arg[2], ViewLink(f.id))
                /\ status[t] = 200

C6_Witness ==
    \E t \in Threads :
        /\ SingleEventDone(t, "image")
        /\ \A k \in DOMAIN log[t] : log[t][k].err = ""
        /\ AllCalls(t, "reply") # {}
        /\ AllCalls(t, "refresh") # {}
        /\ status[t] = 200

\* What the text handler leaves alone, and the one call it makes.
TextHandlerStep(t) ==
    (pc[t] = "handle_message" /\ pc'[t] # "handle_message") =>
        /\ token_json' = token_json
        /\ images' = images
        /\ drive' = drive
        /\ acq' = acq
        /\ local' = local
        /\ Len(log'[t]) = Len(log[t]) + 1
        /\ Last(log'[t]).op = "reply"

\* C7: for a verified request holding exactly one text event, the only
\* outbound call is one reply call, with the event's reply token and a
\* text holding the received text; the handler fetches no content, writes
\* no scratch file, neither reads nor writes token.json and makes no
\* drive call.
C7_TextReplyOnly ==
    /\ [](\A t \in Threads :
            SingleEventDone(t, "text") =>
                LET e == request[t].events[1]
                IN  /\ Len(log[t]) = 1
                    /\ log[t][1].op = "reply"
                    /\ log[t][1].ev = e.id
                    /\ log[t][1].arg[1] = e.reply_token
                    /\ Contains(log[t][1].arg[2], e.text)
                    /\ local[t] = NoLocals
                    /\ acq[t] = NoAcquisition
                    /\ images = EmptyDir
                    /\ drive = {})
    /\ [][\A t \in Threads : TextHandlerStep(t)]_vars

C7_Witness ==
    \E t \in Threads :
        /\ SingleEventDone(t, "text")
        /\ request[t].events[1].text = "bye"
        /\ Len(log[t]) = 1
        /\ status[t] = 200

\* The persisted record can be refreshed: expired, with a refresh token.
Refreshable(c) == ~Valid(c) /\ c.expired /\ c.refresh_token

\* C8: an acquisition that loaded a valid record returns that record, makes
\* no refresh call and does not write token.json.
C8_ValidRecordReturnedAsIs ==
    \A t \in Threads :
        LET a == acq[t]
        IN  (a.loaded # {} /\ \A c \in a.loaded : Valid(c)) =>
                /\ a.result = "returned"
                /\ a.returned = a.loaded
                /\ a.refresh_calls = 0
                /\ a.token_writes = 0
                /\ Calls(t, "refresh", a.ev) = {}
                /\ token_json = a.before

C8_Witness ==
    \E t \in Threads :
        /\ pc[t] = "create"
        /\ acq[t].result = "returned"
        /\ acq[t].loaded # {}
        /\ \A c \in acq[t].loaded : Valid(c) /\ c.refresh_token

\* C9: an acquisition that loaded an expired record with a refresh token
\* makes exactly one refresh call; when the refresh succeeds, token.json
\* holds the refreshed record by the time the credential is returned; when
\* it fails, the exception reaches the caller, no second refresh is made
\* and token.json is as it was.
C9_RefreshOncePersistOrPropagate ==
    \A t \in Threads :
        LET a == acq[t]
        IN  (a.loaded # {} /\ \A c \in a.loaded : Refreshable(c)) =>
                /\ a.result = "none" =>
                       /\ pc[t] = "refresh"
                       /\ a.refresh_calls = 0
                       /\ token_json = a.before
                /\ a.result # "none" =>
                       /\ a.refresh_calls = 1
                       /\ Cardinality(Calls(t, "refresh", a.ev)) = 1
                /\ a.result = "returned" =>
                       /\ a.token_writes = 1
                       /\ token_json = a.returned
                       /\ a.returned # a.loaded
                       /\ \A c \in a.returned : Valid(c)
                /\ a.result = "raised" =>
                       /\ a.token_writes = 0
                       /\ token_json = a.before
                       /\ event[t].id = a.ev => local[t].exc = "refresh_error"
                       /\ Calls(t, "create", a.ev) = {}

C9_Witness ==
    \E t \in Threads :
        /\ pc[t] = "create"
        /\ acq[t].result = "returned"
        /\ \A c \in acq[t].loaded : Refreshable(c)
        /\ acq[t].refresh_calls = 1
        /\ token_json = acq[t].returned

\* C10: every create-file request is made with a valid credential that the
\* acquisition of the same upload returned; an acquisition that finds no
\* record, or an invalid record that cannot be refreshed, raises, makes no
\* refresh call, writes no token.json, and no drive request follows.
C10_NoUploadWithoutValidCredential ==
    \A t \in Threads :
        LET a == acq[t]
        IN  /\ \A k \in AllCalls(t, "create") :
                   /\ log[t][k].arg[3] # {}
                   /\ \A c \in log[t][k].arg[3] : Valid(c)
            /\ pc[t] = "create" =>
                   /\ a.result = "returned"
                   /\ a.ev = event[t].id
                   /\ local[t].creds = a.returned
                   /\ a.returned # {}
                   /\ \A c \in a.returned : Valid(c)
            /\ (a.ev # "" /\ (a.loaded = {} \/ \A c \in a.loaded : ~Valid(c) /\ ~Refreshable(c))) =>
                   /\ a.result = "raised"
                   /\ a.refresh_calls = 0
                   /\ a.token_writes = 0
                   /\ token_json = a.before
                   /\ Calls(t, "refresh", a.ev) = {}
                   /\ Calls(t, "create", a.ev) = {}
                   /\ Calls(t, "permission", a.ev) = {}
                   /\ event[t].id = a.ev => local[t].exc = "Missing or invalid token.json"

C10_Witness ==
    \E t \in Threads :
        /\ pc[t] = "done"
        /\ acq[t].result = "raised"
        /\ acq[t].loaded = {}
        /\ AllCalls(t, "upload") # {}

\* C11: a permission request is made only right after the create-file
\* request of the same upload returned; whether it returns or raises, the
\* uploader returns the id, name and view link of the created file, the
\* handler goes on to delete the scratch file and its next reply is the
\* success reply holding that name and link; a create-file request that
\* raised is followed by no permission request but by the error reply.
C11_PermissionBestEffort ==
    \A t \in Threads :
        \A k \in DOMAIN log[t] :
            /\ log[t][k].op = "permission" =>
                   /\ k > 1
                   /\ log[t][k - 1].op = "create"
                   /\ log[t][k - 1].ev = log[t][k].ev
                   /\ log[t][k - 1].err = ""
                   /\ \E f \in drive :
                          /\ f.name = log[t][k - 1].arg[1]
                          /\ f.public = (log[t][k].err = "")
                          /\ IF k = Len(log[t])
                             THEN /\ pc[t] = "remove"
                                  /\ local[t].exc = ""
                                  /\ local[t].drive_file =
                                         {[id |-> f.id, name |-> f.name,
                                           webViewLink |-> ViewLink(f.id)]}
                             ELSE /\ log[t][k + 1].op = "remove"
                                  /\ log[t][k + 1].ev = log[t][k].ev
                                  /\ k + 2 <= Len(log[t]) =>
                                         /\ log[t][k + 2].op = "reply"
                                         /\ log[t][k + 2].ev = log[t][k].ev
                                         /\ Contains(log[t][k + 2].arg[2], f.name)
                                         /\ Contains(log[t][k + 2].arg[2], ViewLink(f.id))
            /\ (log[t][k].op = "create" /\ log[t][k].err # "") =>
                   /\ Calls(t, "permission", log[t][k].ev) = {}
                   /\ k < Len(log[t]) =>
                          /\ log[t][k + 1].op = "reply"
                          /\ log[t][k + 1].arg[2] = ErrorText(log[t][k].err)

C11_Witness ==
    \E t \in Threads :
        /\ pc[t] = "done"
        /\ status[t] = 200
        /\ \E k \in AllCalls(t, "permission") :
               /\ log[t][k].err # ""
               /\ k + 2 <= Len(log[t])
               /\ log[t][k + 2].op = "reply"
               /\ log[t][k + 2].err = ""

NotRefresh(entry) == entry.op # "refresh"

\* The operations of thread t's calls, in order, the token refresh left out.
Steps(t) ==
    LET calls == SelectSeq(log[t], NotRefresh)
    IN  [k \in DOMAIN calls |-> calls[k].op]

\* A verified request holding one image event, answered, no call of which
\* raised.
ImageSuccessDone(t) ==
    /\ SingleEventDone(t, "image")
    /\ \A k \in DOMAIN log[t] : log[t][k].err = ""

\* C12 as claimed: on the success path of an image event the calls are, in
\* order: content fetch, scratch write, upload (create, permission), reply,
\* scratch delete.
C12_ReplyThenDelete ==
    \A t \in Threads :
        ImageSuccessDone(t) =>
            Steps(t) = <<"get_message_content", "write", "upload", "create",
                         "permission", "reply", "remove">>

\* C12 amended: on the success path of an image event the calls are, in
\* order: content fetch, scratch write, upload (create, permission), scratch
\* delete, reply; the scratch file holds the fetched bytes during the whole
\* upload and is gone when the reply is sent.
C12_DeleteThenReply ==
    \A t \in Threads :
        /\ ImageSuccessDone(t) =>
               Steps(t) = <<"get_message_content", "write", "upload", "create",
                            "permission", "remove", "reply">>
        /\ pc[t] \in {"upload", "refresh", "create", "permission"} =>
               /\ ImagePath(event[t].id) \in DOMAIN images
               /\ images[ImagePath(event[t].id)] = Content(event[t].id)
        /\ (pc[t] = "reply" /\ Last(log[t]).err = "") =>
               ImagePath(event[t].id) \notin DOMAIN images

C12_Witness ==
    \E t \in Threads :
        /\ ImageSuccessDone(t)
        /\ Len(Steps(t)) = 7
        /\ ImagePath(request[t].events[1].id) \notin DOMAIN images
        /\ status[t] = 200

----------------------------------------------------------------------------
\* Concurrent image events: every thread serves a verified request holding
\* one image event, and the threads interleave call by call.  The message
\* identifiers of the events differ (MessageId).

ImageRequest(t) ==
    [signature |-> "good", parsable |-> TRUE,
     events |-> Events(t, <<[kind |-> "image", text |-> ""]>>)]

\* The state after callback and handler.handle accepted the requests.
InitConc ==
    /\ pc = [t \in Threads |-> "dispatch"]
    /\ request = [t \in Threads |-> ImageRequest(t)]
    /\ status = [t \in Threads |-> 0]
    /\ queue = [t \in Threads |-> ImageRequest(t).events]
    /\ event = [t \in Threads |-> NoEvent]
    /\ local = [t \in Threads |-> NoLocals]
    /\ token_json \in {{}} \cup {{c} : c \in CredentialRecords}
    /\ images = EmptyDir
    /\ drive = {}
    /\ line = {}
    /\ log = [t \in Threads |-> <<>>]
    /\ acq = [t \in Threads |-> NoAcquisition]

NextConc ==
    \E t \in Threads :
        \/ dispatch(t)
        \/ get_message_content(t)
        \/ write_scratch(t)
        \/ get_google_drive_service(t)
        \/ creds_refresh(t)
        \/ files_create(t)
        \/ permissions_create(t)
        \/ os_remove(t)
        \/ reply_success(t)
        \/ reply_error(t)

SpecConc == InitConc /\ [][NextConc]_vars

\* The message id of the image event thread t serves.
OwnId(t) == request[t].events[1].id

\* C13: with image events of distinct message ids handled concurrently,
\* every write, upload and delete call of a handler names the scratch file
\* of its own event; from its write to its delete that file exists and
\* holds the bytes fetched for the event, whatever the other handlers do;
\* every create-file request sends the bytes fetched for its own event, and
\* no upload finds its file missing.
C13_OwnScratchFileOnly ==
    /\ \A t \in Threads :
           /\ pc[t] \in {"upload", "refresh", "create", "permission", "remove"} =>
                  /\ ImagePath(OwnId(t)) \in DOMAIN images
                  /\ images[ImagePath(OwnId(t))] = Content(OwnId(t))
           /\ \A k \in DOMAIN log[t] :
                  /\ log[t][k].ev = OwnId(t)
                  /\ log[t][k].op # "open"
                  /\ log[t][k].op \in {"write", "remove"} =>
                         log[t][k].arg = <<ImagePath(OwnId(t))>>
                  /\ log[t][k].op = "upload" =>
                         log[t][k].arg = <<ImagePath(OwnId(t)), FileName(OwnId(t))>>
                  /\ log[t][k].op = "create" =>
                         /\ log[t][k].arg[1] = FileName(OwnId(t))
                         /\ log[t][k].arg[2] = Content(OwnId(t))
           /\ (pc[t] = "done" /\ \E k \in Calls(t, "remove", OwnId(t)) : log[t][k].err = "") =>
                  ImagePath(OwnId(t)) \notin DOMAIN images
    /\ \A f \in drive :
           \E t \in Threads : f.name = FileName(OwnId(t)) /\ f.bytes = Content(OwnId(t))
    /\ \A p \in DOMAIN images :
           \E t \in Threads :
               /\ p = ImagePath(OwnId(t))
               /\ images[p] \in {Content(OwnId(t)), ""}
               /\ Calls(t, "write", OwnId(t)) # {}

C13_Witness ==
    /\ pc["t1"] = "reply"
    /\ ImagePath(OwnId("t1")) \notin DOMAIN images
    /\ \E f \in drive : f.bytes = Content(OwnId("t1"))
    /\ pc["t2"] = "create"
    /\ ImagePath(OwnId("t2")) \in DOMAIN images

\* C14: over the handling of an image event the reply API is called at
\* most once with the event's reply token: no reply call for an event comes
\* after an earlier reply call for the same event.
C14_AtMostOneReplyCall ==
    \A t \in Threads :
        \A j, k \in AllCalls(t, "reply") :
            (j < k /\ log[t][j].arg[1] = log[t][k].arg[1]) =>
                \E i \in DOMAIN request[t].events :
                    /\ request[t].events[i].reply_token = log[t][k].arg[1]
                    /\ request[t].events[i].kind # "image"

====
